---- MODULE Spec2Model ----
(***************************************************************************)
(* Model of the branch-aware countdown timer of src/src/extension.ts.      *)
(*                                                                         *)
(* Time is measured in whole seconds (Date.now() / 1000).  Every command   *)
(* invocation and the timer loop it may launch is one asynchronous         *)
(* process; its position is the await it is suspended at.  The code        *)
(* between two awaits runs on the single-threaded event loop and is one    *)
(* atomic action.  The module variable currentState of the source is       *)
(* written once and never read, so it is not part of the model.            *)
(***************************************************************************)
EXTENDS Integers, FiniteSets, Sequences, TLC

(* ------------------------------ bounds --------------------------------- *)

\* number of command invocations / loops that can be alive at once
MaxProcs == 2

Procs == 1..MaxProcs

\* the instants of the wall clock at which something is observed: the coarse
\* clock of Spec and LiveSpec, and the one-second clock of FineSpec around the
\* 5-minute mark of a tutorial loop started at 0
CoarseInstants == {0, 600, 960}
FineInstants   == {0, 599, 600, 602, 960}

\* the last instant of the coarse clock
LastInstant == 960

\* the instants and the field values of the records of FileSpec
FileInstants == {0, 1, 2, 4}
FileBranches == {"tutorial", "feature"}
FileNumbers == [elapsed |-> {0, 2}, limit |-> {3, 900}, startTime |-> {0, 1},
                task |-> {1, 2}]

(* --------------------------- program constants ------------------------- *)

\* the branches getBranch() reports in the model
Branches == {"tutorial", "addPicture"}

\* every kind of branch: the four with an entry in BRANCH_LIMITS and one without
AllBranches == {"main", "tutorial", "addPicture", "addDistance", "feature"}

BRANCH_LIMITS ==
  [b \in {"main", "tutorial", "addPicture", "addDistance"} |->
     CASE b = "main"        -> 6 * 60
       [] b = "tutorial"    -> 15 * 60
       [] b = "addPicture"  -> 30 * 60
       [] b = "addDistance" -> 30 * 60]

\* BRANCH_LIMITS[branch] ?? 30*60
DefaultLimit == 1800

\* setTimeout(res, 1000)
TickSeconds == 1

\* remaining <= 300 && remaining > 299
WarnHigh == 300
WarnLow  == 299

LimitFor(b) == IF b \in DOMAIN BRANCH_LIMITS THEN BRANCH_LIMITS[b] ELSE DefaultLimit

IsWarmup(b) == b = "tutorial"

MaxTasksFor(b) ==
  IF IsWarmup(b) THEN 1
  ELSE IF b \in {"addDistance", "addPicture"} THEN 3 ELSE 1

(* ------------------------------ TimerState ----------------------------- *)

\* the value of loadState() when the state file does not exist, and of a
\* process's st before it is assigned
NullState == [branch |-> "", elapsed |-> 0, limit |-> 0, startTime |-> 0, task |-> 0]

NewStateNoLookup(b, nowSec) ==
  [branch |-> b, elapsed |-> 0, limit |-> DefaultLimit, startTime |-> nowSec, task |-> 1]

\* st = { branch, elapsed: 0, limit: BRANCH_LIMITS[branch] ?? 30*60, startTime: now, task: 1 }
NewState(b, nowSec) ==
  [branch |-> b, elapsed |-> 0, limit |-> LimitFor(b), startTime |-> nowSec, task |-> 1]

\* the names of the fields of interface TimerState, in the order saveState
\* writes them
Fields == <<"branch", "elapsed", "limit", "startTime", "task">>

\* the state file does not exist
NoFile == [exists |-> FALSE, text |-> <<>>]

\* the state file holding an object text
FileOf(text) == [exists |-> TRUE, text |-> text]

\* the value of a property that is not there
Undefined == "undefined"

\* JSON.parse of an object text, held as the sequence of its members
\* <<name, value>>: the object with those properties, the last member of a
\* name winning
JsonParse(text) ==
  [k \in {text[i][1] : i \in DOMAIN text} |->
     LET last == CHOOSE i \in DOMAIN text :
                   /\ text[i][1] = k
                   /\ \A j \in DOMAIN text : text[j][1] = k => j <= i
     IN text[last][2]]

\* JSON.stringify of a TimerState: its properties in order, those whose value
\* is undefined left out
JsonStringify(st) ==
  (IF st.branch = Undefined THEN <<>> ELSE << <<"branch", st.branch>> >>)
    \o [i \in 1..4 |-> <<Fields[i + 1], st[Fields[i + 1]]>>]

OrElseTruthy(raw, k, default) ==
  IF k \in DOMAIN raw /\ raw[k] # 0 THEN raw[k] ELSE default

\* raw.k ?? default on the parsed object: the default when the property is
\* not there
OrElse(raw, k, default) == IF k \in DOMAIN raw THEN raw[k] ELSE default

\* loadState(): null when the file does not exist, else the parsed record
\* with the defaults of lines 43-46
LoadState(file, nowSec) ==
  IF ~file.exists THEN NullState
  ELSE LET raw == JsonParse(file.text)
           b == IF "branch" \in DOMAIN raw THEN raw["branch"] ELSE Undefined
       IN [branch    |-> b,
           elapsed   |-> OrElse(raw, "elapsed", 0),
           limit     |-> OrElse(raw, "limit", LimitFor(b)),
           startTime |-> OrElse(raw, "startTime", nowSec),
           task      |-> OrElse(raw, "task", 1)]

SaveStateResetsTask(st) == FileOf(JsonStringify([st EXCEPT !.task = 1]))

\* saveState(st): fs.writeFileSync(STATE_FILE, JSON.stringify(st))
SaveState(st) == FileOf(JsonStringify(st))

Max(a, b) == IF a >= b THEN a ELSE b

Min(a, b) == IF a <= b THEN a ELSE b

TotalElapsedUnclamped(s, nowSec) == s.elapsed + (nowSec - s.startTime)

\* Math.min(st.limit, st.elapsed + (nowSec - st.startTime))
TotalElapsed(s, nowSec) == Min(s.limit, s.elapsed + (nowSec - s.startTime))

Remaining(s, nowSec) == s.limit - TotalElapsed(s, nowSec)

\* formatTime: MM:SS, each field floored
FormatTime(sec) == <<sec \div 60, sec % 60>>

\* remaining <= 300 && remaining > 299
InWarnWindow(remaining) == remaining <= WarnHigh /\ remaining > WarnLow

ExpiredStrict(remaining) == remaining < 0

\* remaining <= 0
Expired(remaining) == remaining <= 0

SequenceCompleteLate(task, maxTasks) == task > maxTasks + 1

\* st.task > maxTasks
SequenceComplete(task, maxTasks) == task > maxTasks

LockoutAlways(ok, present) == TRUE

LockoutNever(ok, present) == present

\* installLockout() is reached only when add, commit and push all resolved
LockoutAfter(ok, present) == IF ok THEN TRUE ELSE present

(* ------------------------------- state --------------------------------- *)

VARIABLES
  now,            \* Date.now() / 1000
  stateFile,      \* content of .timer_state.json, NullState when absent
  pauseMarker,    \* .pause_timer exists
  lockout,        \* .git/hooks/pre-commit (LOCKOUT_HOOK) exists
  postCommit,     \* .git/hooks/post-commit (POSTCOMMIT_HOOK) exists
  statusBar,      \* [shown, text] of the status bar item
  notice,         \* the notification the last step showed without awaiting it
  proc,           \* the command invocations and their loops
  hist            \* history: pushed, an add, commit and push of onTimerFinished
                  \* all succeeded; completed, the branch whose completion
                  \* notice was shown last, "" after a start on another branch;
                  \* done, a loop has reported completion and no start command
                  \* was invoked since; paused, the remaining seconds the last
                  \* pause command reported, NotPaused when a start command was
                  \* invoked or a loop was launched since; expired, the branch
                  \* of the loop that expired last, "" when a loop was launched
                  \* or a start command re-initialised the record since

vars == <<now, stateFile, pauseMarker, lockout, postCommit,
          statusBar, notice, proc, hist>>

\* hist.paused when no pause command is remembered
NotPaused == -1

IdleProc ==
  [pc |-> "idle", st |-> NullState, maxTasks |-> 0, isWarmup |-> FALSE,
   wake |-> 0, ret |-> "",
   warned |-> 0, startRem |-> 0, lastRem |-> 0, attempts |-> 0]

Terminal == {"idle"}

LoopPcs == {"sleep", "taskDone", "congrats", "warn", "timesUp",
            "gitAdd", "gitCommit", "gitPush"}

Running(p) == proc[p].pc = "sleep"

Init ==
  /\ now = 0
  /\ stateFile = NullState
  /\ pauseMarker = FALSE
  /\ lockout = FALSE
  /\ postCommit = FALSE
  /\ statusBar = [shown |-> FALSE, text |-> <<>>]
  /\ notice = <<"none">>
  /\ proc = [p \in Procs |-> IdleProc]
  /\ hist = [pushed |-> FALSE, completed |-> "", done |-> FALSE, paused |-> NotPaused,
             expired |-> ""]

StatusText(remaining, suffix) == <<FormatTime(remaining), suffix>>

Show(remaining, suffix) == [shown |-> TRUE, text |-> StatusText(remaining, suffix)]


Set(p, r) == proc' = [proc EXCEPT ![p] = r]

\* the step shows no notification that is not awaited
Quiet == notice' = <<"none">>

\* the process returns: its locals are gone
Return(r) == IdleProc

ExpiredKeepsTicking(r) == [r EXCEPT !.pc = "sleep", !.wake = now + TickSeconds]

\* await onTimerFinished(statusBar); return;
ReturnExpired(r) == Return(r)

\* promptForStart(label) up to its first await, the "read the instructions" modal
BeginPrompt(r, ret) == [r EXCEPT !.pc = "promptInfo", !.ret = ret]

\* first iteration of while (true): await setTimeout(res, 1000)
EnterLoop(r) ==
  [r EXCEPT !.pc = "sleep", !.wake = now + TickSeconds, !.ret = "",
            !.warned = 0,
            !.startRem = r.st.limit - r.st.elapsed,
            !.lastRem = r.st.limit - r.st.elapsed]

(* ------------------------------ loadState ------------------------------ *)

\* the state file exists and holds text that JSON.parse rejects
MalformedState ==
  [branch |-> "<malformed>", elapsed |-> 0, limit |-> 0, startTime |-> 0, task |-> 0]

LoadNeverThrows(file) == FALSE

\* JSON.parse(fs.readFileSync(STATE_FILE, 'utf8')) throws a SyntaxError
LoadThrows(file) == file = MalformedState

\* loadState has thrown in a command handler, which catches nothing: the
\* handler ends there and the error goes to the command's caller
CommandThrows ==
  /\ notice' = <<"error", "SyntaxError">>
  /\ UNCHANGED <<now, stateFile, pauseMarker, lockout, postCommit,
                 statusBar, proc, hist>>

(* ------------------------- extension.startTimer ------------------------ *)

\* the command up to its first await; branch is what getBranch() returns
StartTimer(p, branch) ==
  /\ proc[p].pc \in Terminal
  /\ \A q \in Procs : q < p => proc[q].pc \notin Terminal
  /\ IF LoadThrows(stateFile) THEN CommandThrows ELSE
       /\ LET loaded == stateFile
              st0 == IF loaded = NullState \/ loaded.branch # branch
                       THEN NewState(branch, now)
                       ELSE loaded
              r0 == [IdleProc EXCEPT !.st = st0,
                                     !.maxTasks = MaxTasksFor(branch),
                                     !.isWarmup = IsWarmup(branch)]
          IN /\ stateFile' = st0
             /\ IF SequenceComplete(st0.task, r0.maxTasks)
                  THEN /\ Set(p, [r0 EXCEPT !.pc = "startCongrats"])
                       /\ hist' = [hist EXCEPT !.completed = branch,
                                               !.done = FALSE, !.paused = NotPaused,
                                               !.expired = IF st0 = loaded THEN @ ELSE ""]
                       /\ UNCHANGED pauseMarker
                  ELSE /\ hist' = [hist EXCEPT !.completed = IF @ = branch THEN @ ELSE "",
                                               !.done = FALSE, !.paused = NotPaused,
                                               !.expired = IF st0 = loaded THEN @ ELSE ""]
                       /\ IF pauseMarker
                            THEN /\ pauseMarker' = FALSE
                                 /\ Set(p, [r0 EXCEPT !.pc = "startTaskDone"])
                            ELSE /\ Set(p, BeginPrompt(r0, "fresh"))
                                 /\ UNCHANGED pauseMarker
       /\ Quiet
       /\ UNCHANGED <<now, lockout, postCommit, statusBar>>

\* the completion modal of the command is dismissed: return
DismissStartCongrats(p) ==
  /\ proc[p].pc = "startCongrats"
  /\ Set(p, Return(proc[p]))
  /\ Quiet
  /\ UNCHANGED <<now, stateFile, pauseMarker, lockout, postCommit,
                 statusBar, hist>>

\* the "Task n has been committed" modal of the command is dismissed
DismissStartTaskDone(p) ==
  /\ proc[p].pc = "startTaskDone"
  /\ LET r1 == [proc[p] EXCEPT !.st.task = @ + 1]
     IN IF SequenceComplete(r1.st.task, r1.maxTasks)
          THEN /\ Set(p, [r1 EXCEPT !.pc = "startCongrats"])
               /\ hist' = [hist EXCEPT !.completed = r1.st.branch]
          ELSE /\ Set(p, BeginPrompt(r1, "next"))
               /\ UNCHANGED hist
  /\ Quiet
  /\ UNCHANGED <<now, stateFile, pauseMarker, lockout, postCommit,
                 statusBar>>

\* what the command does once its prompt has resolved
LaunchLoop(p, r) ==
  /\ stateFile' = r.st
  /\ statusBar' = Show(r.st.limit - r.st.elapsed, "")
  /\ postCommit' = TRUE
  /\ Set(p, EnterLoop(r))
  /\ hist' = [hist EXCEPT !.paused = NotPaused, !.expired = ""]
  /\ Quiet
  /\ UNCHANGED <<now, pauseMarker, lockout>>

StartFreshAcceptedKeeps(p) ==
  /\ proc[p].pc = "promptPanel"
  /\ proc[p].ret = "fresh"
  /\ LaunchLoop(p, [proc[p] EXCEPT !.st.startTime = now])

\* the prompt of the no-marker path resolves true
StartFreshAccepted(p) ==
  /\ proc[p].pc = "promptPanel"
  /\ proc[p].ret = "fresh"
  /\ LaunchLoop(p, [proc[p] EXCEPT !.st.elapsed = 0, !.st.startTime = now])

\* the prompt of the pause-marker path resolves true
StartNextAccepted(p) ==
  /\ proc[p].pc = "promptPanel"
  /\ proc[p].ret = "next"
  /\ LaunchLoop(p, [proc[p] EXCEPT !.st.startTime = now])

(* ---------------------------- promptForStart --------------------------- *)

\* the "read the instructions" modal is dismissed: the panel is created
PromptContinue(p) ==
  /\ proc[p].pc = "promptInfo"
  /\ Set(p, [proc[p] EXCEPT !.pc = "promptPanel"])
  /\ Quiet
  /\ UNCHANGED <<now, stateFile, pauseMarker, lockout, postCommit,
                 statusBar, hist>>

\* the user closes the panel: onDidDispose with wasSuccessful = false
PromptClose(p) ==
  /\ proc[p].pc = "promptPanel"
  /\ Set(p, [proc[p] EXCEPT !.pc = "promptError"])
  /\ Quiet
  /\ UNCHANGED <<now, stateFile, pauseMarker, lockout, postCommit,
                 statusBar, hist>>

\* the panel posts a message whose value is not the expected text: ignored
PromptMismatch(p) ==
  /\ proc[p].pc = "promptPanel"
  /\ Quiet
  /\ UNCHANGED <<now, stateFile, pauseMarker, lockout, postCommit,
                 statusBar, proc, hist>>

PromptReopenReturns(p) ==
  /\ proc[p].pc = "promptError"
  /\ Set(p, Return(proc[p]))
  /\ Quiet
  /\ UNCHANGED <<now, stateFile, pauseMarker, lockout, postCommit,
                 statusBar, hist>>

\* the "You must type" message is dismissed: a new panel is created
PromptReopen(p) ==
  /\ proc[p].pc = "promptError"
  /\ Set(p, [proc[p] EXCEPT !.pc = "promptPanel"])
  /\ Quiet
  /\ UNCHANGED <<now, stateFile, pauseMarker, lockout, postCommit,
                 statusBar, hist>>


(* ------------------------------ runTimerLoop --------------------------- *)

\* the setTimeout of the loop has fired
Awake(p) == proc[p].pc = "sleep" /\ now >= proc[p].wake

\* a tick that finds the pause marker, up to the "Task n committed" modal
TickPause(p) ==
  /\ Awake(p)
  /\ pauseMarker
  /\ LET st == proc[p].st
         totalElapsed == TotalElapsed(st, now)
         remaining == st.limit - totalElapsed
         st1 == [st EXCEPT !.elapsed = totalElapsed]
     IN /\ pauseMarker' = FALSE
        /\ stateFile' = st1
        /\ statusBar' = Show(remaining, "(paused)")
        /\ Set(p, [proc[p] EXCEPT !.st = st1, !.pc = "taskDone", !.lastRem = remaining])
  /\ Quiet
  /\ UNCHANGED <<now, lockout, postCommit, hist>>

\* the "Task n committed" modal of the loop is dismissed
DismissTaskDone(p) ==
  /\ proc[p].pc = "taskDone"
  /\ LET r1 == [proc[p] EXCEPT !.st.task = @ + 1]
     IN /\ stateFile' = r1.st
        /\ IF SequenceComplete(r1.st.task, r1.maxTasks)
             THEN /\ Set(p, [r1 EXCEPT !.pc = "congrats"])
                  /\ hist' = [hist EXCEPT !.completed = r1.st.branch, !.done = TRUE]
             ELSE /\ Set(p, BeginPrompt(r1, "loop"))
                  /\ UNCHANGED hist
  /\ Quiet
  /\ UNCHANGED <<now, pauseMarker, lockout, postCommit, statusBar>>

\* the completion modal of the loop is dismissed: return
DismissCongrats(p) ==
  /\ proc[p].pc = "congrats"
  /\ Set(p, Return(proc[p]))
  /\ Quiet
  /\ UNCHANGED <<now, stateFile, pauseMarker, lockout, postCommit,
                 statusBar, hist>>

LoopNextAcceptedResets(p) ==
  /\ proc[p].pc = "promptPanel"
  /\ proc[p].ret = "loop"
  /\ LaunchLoop(p, [proc[p] EXCEPT !.st.elapsed = 0, !.st.startTime = now])

\* the next-task prompt of the loop resolves true: continue
LoopNextAccepted(p) ==
  /\ proc[p].pc = "promptPanel"
  /\ proc[p].ret = "loop"
  /\ LaunchLoop(p, [proc[p] EXCEPT !.st.startTime = now])

\* the part of a tick without pause marker that every such tick executes
TickShow(p, remaining) ==
  /\ ~pauseMarker
  /\ statusBar' = Show(remaining, "")
  /\ stateFile' = [proc[p].st EXCEPT !.elapsed = TotalElapsed(proc[p].st, now)]

\* a tick inside the 5-minute window, up to the warning modal
TickWarn(p) ==
  /\ Awake(p)
  /\ LET remaining == Remaining(proc[p].st, now)
     IN /\ InWarnWindow(remaining)
        /\ TickShow(p, remaining)
        /\ Set(p, [proc[p] EXCEPT !.pc = "warn", !.warned = @ + 1,
                                  !.lastRem = remaining])
  /\ Quiet
  /\ UNCHANGED <<now, pauseMarker, lockout, postCommit, hist>>

\* the warning modal is dismissed; remaining of that tick was > 0: next iteration
DismissWarn(p) ==
  /\ proc[p].pc = "warn"
  /\ Set(p, [proc[p] EXCEPT !.pc = "sleep", !.wake = now + TickSeconds])
  /\ Quiet
  /\ UNCHANGED <<now, stateFile, pauseMarker, lockout, postCommit,
                 statusBar, hist>>

\* a tick with time left, outside the window: next iteration
TickRun(p) ==
  /\ Awake(p)
  /\ LET remaining == Remaining(proc[p].st, now)
     IN /\ ~InWarnWindow(remaining)
        /\ ~Expired(remaining)
        /\ TickShow(p, remaining)
        /\ Set(p, [proc[p] EXCEPT !.wake = now + TickSeconds, !.lastRem = remaining])
  /\ Quiet
  /\ UNCHANGED <<now, pauseMarker, lockout, postCommit, hist>>

TickExpireIgnoresMarker(p) ==
  /\ Awake(p)
  /\ LET remaining == Remaining(proc[p].st, now)
     IN /\ Expired(remaining)
        /\ stateFile' = [proc[p].st EXCEPT !.elapsed = TotalElapsed(proc[p].st, now)]
        /\ statusBar' = Show(0, "")
        /\ pauseMarker' = FALSE
        /\ Set(p, [proc[p] EXCEPT !.pc = "timesUp", !.lastRem = remaining])
        /\ hist' = [hist EXCEPT !.expired = proc[p].st.branch]
  /\ Quiet
  /\ UNCHANGED <<now, lockout, postCommit>>

\* a tick with remaining <= 0: onTimerFinished up to the "Time's up" modal
\* (there is no pause marker to delete on this path)
TickExpire(p) ==
  /\ Awake(p)
  /\ LET remaining == Remaining(proc[p].st, now)
     IN /\ ~InWarnWindow(remaining)
        /\ Expired(remaining)
        /\ ~pauseMarker
        /\ stateFile' = [proc[p].st EXCEPT !.elapsed = TotalElapsed(proc[p].st, now)]
        /\ statusBar' = Show(0, "")
        /\ Set(p, [proc[p] EXCEPT !.pc = "timesUp", !.lastRem = remaining])
        /\ hist' = [hist EXCEPT !.expired = proc[p].st.branch]
  /\ Quiet
  /\ UNCHANGED <<now, pauseMarker, lockout, postCommit>>

(* ----------------------------- onTimerFinished ------------------------- *)

\* the "Time's up" modal is dismissed; gitOk: the git extension, its first
\* repository and its HEAD name are there, so repo.add([]) is awaited
DismissTimesUp(p, gitOk) ==
  /\ proc[p].pc = "timesUp"
  /\ IF gitOk
       THEN /\ Set(p, [proc[p] EXCEPT !.pc = "gitAdd", !.attempts = @ + 1])
            /\ Quiet
       ELSE /\ Set(p, ReturnExpired(proc[p]))
            /\ notice' = <<"autoCommitFailed", "Git extension not found">>
  /\ UNCHANGED <<now, stateFile, pauseMarker, lockout, postCommit,
                 statusBar, hist>>

GitStepSkipsCommit(p, ok) ==
  /\ proc[p].pc \in {"gitAdd", "gitCommit", "gitPush"}
  /\ LET last == proc[p].pc = "gitPush"
     IN IF ok /\ ~last
          THEN /\ Set(p, [proc[p] EXCEPT !.pc = "gitPush"])
               /\ Quiet
               /\ UNCHANGED <<lockout, hist>>
          ELSE /\ Set(p, ReturnExpired(proc[p]))
               /\ lockout' = LockoutAfter(ok, lockout)
               /\ hist' = [hist EXCEPT !.pushed = @ \/ ok]
               /\ notice' = IF ok THEN <<"allCommitted">>
                                   ELSE <<"autoCommitFailed", "rejected">>
  /\ UNCHANGED <<now, stateFile, pauseMarker, postCommit, statusBar>>

\* repo.add, repo.commit or repo.push settles: resolved (ok) or rejected
GitStep(p, ok) ==
  /\ proc[p].pc \in {"gitAdd", "gitCommit", "gitPush"}
  /\ LET last == proc[p].pc = "gitPush"
     IN IF ok /\ ~last
          THEN /\ Set(p, [proc[p] EXCEPT !.pc = IF @ = "gitAdd" THEN "gitCommit"
                                                               ELSE "gitPush"])
               /\ Quiet
               /\ UNCHANGED <<lockout, hist>>
          ELSE /\ Set(p, ReturnExpired(proc[p]))
               /\ lockout' = LockoutAfter(ok, lockout)
               /\ hist' = [hist EXCEPT !.pushed = @ \/ ok]
               /\ notice' = IF ok THEN <<"allCommitted">>
                                   ELSE <<"autoCommitFailed", "rejected">>
  /\ UNCHANGED <<now, stateFile, pauseMarker, postCommit, statusBar>>

(* ------------------- extension.pauseTimer / showStatus ----------------- *)

PauseTimerShowsZero ==
  /\ IF stateFile = NullState
       THEN /\ notice' = <<"notStarted">>
            /\ statusBar' = Show(0, "")
            /\ UNCHANGED <<stateFile, hist>>
       ELSE LET elapsed == TotalElapsed(stateFile, now)
            IN /\ stateFile' = [stateFile EXCEPT !.elapsed = elapsed]
               /\ statusBar' = Show(stateFile.limit - elapsed, "")
               /\ notice' = <<"paused", FormatTime(stateFile.limit - elapsed)>>
               /\ hist' = [hist EXCEPT !.paused = stateFile.limit - elapsed]
  /\ UNCHANGED <<now, pauseMarker, lockout, postCommit, proc>>

\* extension.pauseTimer: loadState, saveState({...st, elapsed}), status bar, toast
PauseTimer ==
  IF LoadThrows(stateFile) THEN CommandThrows ELSE
    /\ IF stateFile = NullState
         THEN /\ notice' = <<"notStarted">>
              /\ UNCHANGED <<stateFile, statusBar, hist>>
         ELSE LET elapsed == TotalElapsed(stateFile, now)
              IN /\ stateFile' = [stateFile EXCEPT !.elapsed = elapsed]
                 /\ statusBar' = Show(stateFile.limit - elapsed, "")
                 /\ notice' = <<"paused", FormatTime(stateFile.limit - elapsed)>>
                 /\ hist' = [hist EXCEPT !.paused = stateFile.limit - elapsed]
    /\ UNCHANGED <<now, pauseMarker, lockout, postCommit, proc>>

ShowStatusSaves ==
  /\ IF stateFile = NullState
       THEN notice' = <<"notStarted">> /\ UNCHANGED stateFile
       ELSE /\ notice' = <<"status", stateFile.branch, "Running",
                           FormatTime(Remaining(stateFile, now))>>
            /\ stateFile' = [stateFile EXCEPT !.elapsed = TotalElapsed(stateFile, now)]
  /\ UNCHANGED <<now, pauseMarker, lockout, postCommit, statusBar, proc, hist>>

\* extension.showStatus: loadState, then one information message
ShowStatus ==
  IF LoadThrows(stateFile) THEN CommandThrows ELSE
    /\ IF stateFile = NullState
         THEN notice' = <<"notStarted">>
         ELSE notice' = <<"status", stateFile.branch, "Running",
                          FormatTime(Remaining(stateFile, now))>>
    /\ UNCHANGED <<now, stateFile, pauseMarker, lockout, postCommit,
                   statusBar, proc, hist>>

(* ------------------------------ environment ---------------------------- *)

\* the wall clock advances
AdvanceClock(t) ==
  /\ t > now
  /\ now' = t
  /\ Quiet
  /\ UNCHANGED <<stateFile, pauseMarker, lockout, postCommit,
                 statusBar, proc, hist>>

\* time passes until the pending timer of a loop is due; bounded to the loops
\* whose budget is used up by then and to one tick after the last instant
TimerDue(p) ==
  /\ proc[p].pc = "sleep"
  /\ now < proc[p].wake
  /\ proc[p].wake <= LastInstant + TickSeconds
  /\ proc[p].st.startTime + (proc[p].st.limit - proc[p].st.elapsed) < proc[p].wake
  /\ AdvanceClock(proc[p].wake)

\* a commit runs the installed post-commit hook, which writes .pause_timer
UserCommit ==
  /\ postCommit
  /\ ~pauseMarker
  /\ pauseMarker' = TRUE
  /\ Quiet
  /\ UNCHANGED <<now, stateFile, lockout, postCommit,
                 statusBar, proc, hist>>

(* ---------------------------- specifications --------------------------- *)

ProcStep(p) ==
  \/ \E b \in Branches : StartTimer(p, b)
  \/ DismissStartCongrats(p)
  \/ DismissStartTaskDone(p)
  \/ StartFreshAccepted(p)
  \/ StartNextAccepted(p)
  \/ PromptContinue(p)
  \/ PromptClose(p)
  \/ PromptMismatch(p)
  \/ PromptReopen(p)
  \/ TickPause(p)
  \/ DismissTaskDone(p)
  \/ DismissCongrats(p)
  \/ LoopNextAccepted(p)
  \/ TickWarn(p)
  \/ DismissWarn(p)
  \/ TickRun(p)
  \/ TickExpire(p)
  \/ \E gitOk \in BOOLEAN : DismissTimesUp(p, gitOk)
  \/ \E ok \in BOOLEAN : GitStep(p, ok)

Commands ==
  \/ PauseTimer
  \/ ShowStatus
  \/ UserCommit

Next ==
  \/ \E p \in Procs : ProcStep(p)
  \/ Commands
  \/ \E t \in CoarseInstants : AdvanceClock(t)

Spec == Init /\ [][Next]_vars

\* one invocation at a time: a command is invoked only after the previous
\* invocation and its loop have returned
SeqNext ==
  \/ ProcStep(1)
  \/ Commands
  \/ \E t \in CoarseInstants : AdvanceClock(t)

SeqSpec == Init /\ [][SeqNext]_vars

\* something other than the extension leaves the state file unparsable
CorruptFile ==
  /\ stateFile # MalformedState
  /\ stateFile' = MalformedState
  /\ Quiet
  /\ UNCHANGED <<now, pauseMarker, lockout, postCommit, statusBar, proc, hist>>

\* one invocation at a time, with a state file that can become unparsable
FaultNext ==
  \/ SeqNext
  \/ CorruptFile

FaultSpec == Init /\ [][FaultNext]_vars

\* one invocation at a time, on every kind of branch
WideNext ==
  \/ \E b \in AllBranches : StartTimer(1, b)
  \/ ProcStep(1)
  \/ Commands
  \/ \E t \in CoarseInstants : AdvanceClock(t)

WideSpec == Init /\ [][WideNext]_vars

\* every object text whose members are a selection of the five fields, each
\* with one of its values
FileTexts ==
  LET Member(k) == IF k = "branch" THEN {<<k, b>> : b \in FileBranches}
                   ELSE {<<k, n>> : n \in FileNumbers[k]}
      Texts[i \in 0..Len(Fields)] ==
        IF i = 0 THEN {<<>>}
        ELSE Texts[i - 1]
               \cup {Append(t, m) : t \in Texts[i - 1], m \in Member(Fields[i])}
  IN Texts[Len(Fields)]

\* the state of FileSpec: stateFile holds the text of the state file (NoFile
\* when it does not exist) and proc[1].st the value loadState returned last
FileInit ==
  /\ now \in FileInstants
  /\ stateFile \in {FileOf(t) : t \in FileTexts} \cup {NoFile}
  /\ pauseMarker = FALSE
  /\ lockout = FALSE
  /\ postCommit = FALSE
  /\ statusBar = [shown |-> FALSE, text |-> <<>>]
  /\ notice = <<"none">>
  /\ proc = [p \in Procs |-> IdleProc]
  /\ hist = [pushed |-> FALSE, completed |-> "", done |-> FALSE, paused |-> NotPaused,
             expired |-> ""]

\* const st = loadState()
FileLoad ==
  /\ proc' = [proc EXCEPT ![1].st = LoadState(stateFile, now)]
  /\ notice' = <<"loaded">>
  /\ UNCHANGED <<now, stateFile, pauseMarker, lockout, postCommit, statusBar, hist>>

\* saveState(loadState()), as the start command does on an unchanged branch
FileResave ==
  /\ stateFile.exists
  /\ stateFile' = SaveState(LoadState(stateFile, now))
  /\ notice' = <<"saved">>
  /\ UNCHANGED <<now, pauseMarker, lockout, postCommit, statusBar, proc, hist>>

FileNext ==
  \/ FileLoad
  \/ FileResave
  \/ \E t \in FileInstants : AdvanceClock(t)

FileSpec == FileInit /\ [][FileNext]_vars

\* one invocation at a time and no pause command, under a clock that advances
\* second by second
FineNext ==
  \/ ProcStep(1)
  \/ ShowStatus
  \/ UserCommit
  \/ \E t \in FineInstants : AdvanceClock(t)

FineSpec == Init /\ [][FineNext]_vars

\* one invocation at a time and no commit, hence no pause marker; the clock
\* advances, the timers fire, the user dismisses the modals of a running loop
\* and the git operations settle
LiveNext ==
  \/ \E b \in Branches : StartTimer(1, b)
  \/ PromptContinue(1)
  \/ PromptClose(1)
  \/ PromptMismatch(1)
  \/ PromptReopen(1)
  \/ StartFreshAccepted(1)
  \/ TickWarn(1)
  \/ DismissWarn(1)
  \/ TickRun(1)
  \/ TickExpire(1)
  \/ \E gitOk \in BOOLEAN : DismissTimesUp(1, gitOk)
  \/ \E ok \in BOOLEAN : GitStep(1, ok)
  \/ PauseTimer
  \/ ShowStatus
  \/ \E t \in CoarseInstants : AdvanceClock(t)
  \/ TimerDue(1)

Fairness ==
  /\ WF_vars(\E t \in CoarseInstants : AdvanceClock(t))
  /\ WF_vars(TimerDue(1))
  /\ WF_vars(TickWarn(1))
  /\ WF_vars(DismissWarn(1))
  /\ WF_vars(TickRun(1))
  /\ WF_vars(TickExpire(1))
  /\ WF_vars(\E gitOk \in BOOLEAN : DismissTimesUp(1, gitOk))
  /\ WF_vars(\E ok \in BOOLEAN : GitStep(1, ok))

LiveSpec == Init /\ [][LiveNext]_vars /\ Fairness

TypeOK ==
  /\ now \in Nat
  /\ pauseMarker \in BOOLEAN
  /\ lockout \in BOOLEAN
  /\ postCommit \in BOOLEAN
  /\ \A p \in Procs : proc[p].pc \in Terminal \cup LoopPcs \cup
        {"startCongrats", "startTaskDone", "promptInfo", "promptPanel", "promptError"}

(* -------------------------------- claims ------------------------------- *)

\* the processes that hold a TimerState: every invocation that has not returned
Alive(p) == proc[p].pc # "idle"

\* C1: at most one timer loop is ticking at any time: a start issued while a
\* loop is running replaces that loop, so two loops never wait for a tick
\* together.
C1_AtMostOneTickingLoop == Cardinality({p \in Procs : Running(p)}) <= 1

ElapsedInRange(s) == 0 <= s.elapsed /\ s.elapsed <= s.limit

\* C2: in every reachable state the persisted TimerState and the in-memory
\* TimerState of every invocation and loop satisfy 0 <= elapsed <= limit.
C2_ElapsedWithinLimit ==
  /\ ElapsedInRange(stateFile)
  /\ \A p \in Procs : ElapsedInRange(proc[p].st)

\* C2 witness: the clamp has acted: a state was persisted with elapsed = limit
\* at an instant at which elapsed + (now - startTime) exceeds the limit.
C2_Witness ==
  /\ stateFile # NullState
  /\ stateFile.elapsed = stateFile.limit
  /\ now - stateFile.startTime > stateFile.limit

\* the awaits of onTimerFinished
FinishingPcs == {"timesUp", "gitAdd", "gitCommit", "gitPush"}

\* onTimerFinished of p returns in this step
FinishedReturns(p) == proc[p].pc \in FinishingPcs /\ proc'[p].pc = "idle"

\* the instant at which a running loop that sees no pause marker has used its budget
Deadline(p) == proc[p].st.startTime + (proc[p].st.limit - proc[p].st.elapsed)

\* the modelled clock reaches that instant
InHorizon(p) == \E t \in CoarseInstants : t >= Deadline(p)

C4_LockoutWhateverTheOutcome ==
  [][\A p \in Procs : FinishedReturns(p) => lockout']_vars

\* C4 amended: when onTimerFinished returns, the lockout hook is present if
\* and only if it was present before or stage, commit and push all succeeded;
\* a failure of any step, or a missing git extension, installs nothing.
C4_LockoutIffPushed ==
  [][\A p \in Procs :
       FinishedReturns(p) =>
         (lockout' <=> (lockout \/ (proc[p].pc = "gitPush"
                                      /\ notice' = <<"allCommitted">>)))]_vars

\* C4 witness: onTimerFinished has returned after a failure and there is no
\* lockout hook.
C4_Witness ==
  /\ notice[1] = "autoCommitFailed"
  /\ ~lockout
  /\ stateFile.elapsed = stateFile.limit

\* C5: the lockout hook is present only if a stage-all, commit and push
\* sequence of onTimerFinished completed successfully earlier.
C5_LockoutOnlyAfterPush == lockout => hist.pushed

\* C5 witness: the lockout hook is installed.
C5_Witness == lockout /\ hist.pushed

\* C6: no loop is running while the lockout artifact is installed: the start
\* command that follows an expiry removes it before its loop runs.
C6_NoLoopWhileLocked == lockout => \A p \in Procs : ~Running(p)

InLoop(p) == proc[p].pc \in LoopPcs

\* C7: in every running interval in which remaining went from above 300 s to
\* below 299 s, the 5-minute warning was shown exactly once.
C7_WarnedOncePerCrossing ==
  \A p \in Procs :
    (InLoop(p) /\ proc[p].startRem > 300 /\ proc[p].lastRem < 299)
      => proc[p].warned = 1

TaskInRange(s) ==
  /\ 1 <= s.task
  /\ s.branch = "tutorial" => s.task <= 1 + 1
  /\ s.branch \in {"addDistance", "addPicture"} => s.task <= 3 + 1
  /\ s.branch \notin {"tutorial", "addDistance", "addPicture"} => s.task <= 1 + 1

\* C8: the task index of the persisted TimerState and of every in-memory
\* TimerState satisfies 1 <= task <= maxTasks(branch) + 1, where maxTasks is
\* 1 for tutorial, 3 for addDistance and addPicture and 1 for any other branch.
C8_TaskWithinRange ==
  /\ stateFile # NullState => TaskInRange(stateFile)
  /\ \A p \in Procs : Alive(p) => TaskInRange(proc[p].st)

\* C8 witness: the sequence of a three-task branch is complete: task 4 is
\* persisted and held by the loop that counted it.
C8_Witness ==
  /\ stateFile.branch = "addPicture"
  /\ stateFile.task = 4
  /\ \E p \in Procs : proc[p].pc = "congrats" /\ proc[p].st.task = 4

\* C9: while the persisted branch is unchanged, the persisted task index never
\* decreases and changes only in steps of +1.
C9_TaskStepsByOne ==
  [][(stateFile # NullState /\ stateFile'.branch = stateFile.branch)
       => stateFile'.task \in {stateFile.task, stateFile.task + 1}]_vars

\* a start command is invoked on branch b in this step
StartsOn(p, b) ==
  proc[p].pc = "idle" /\ proc'[p].pc # "idle" /\ proc'[p].st.branch = b

\* C10: once completion has been reported for a branch, every later start on
\* that branch reports completion again: it shows no prompt and starts no loop.
C10_CompletionIsTerminal ==
  [][\A p \in Procs :
       (hist.completed # "" /\ StartsOn(p, hist.completed))
         => proc'[p].pc = "startCongrats"]_vars

\* a tick of the loop of q: its timer has fired and the loop body runs
Ticks(q) == proc[q].pc = "sleep" /\ proc'[q] # proc[q]

\* the loop of p leaves the "Task n committed" modal it showed for its last task
CompletesSequence(p) ==
  /\ proc[p].pc = "taskDone"
  /\ proc[p].st.task = proc[p].maxTasks
  /\ proc'[p] # proc[p]

\* C11: when the loop observes the pause marker with task = maxTasks, task
\* becomes maxTasks + 1 and is persisted, the completion notice is shown and
\* left exactly once, and no loop ticks afterwards until a new start command.
C11_CompletionStopsTicking ==
  [][\A p \in Procs :
       /\ CompletesSequence(p) =>
             (proc'[p].pc = "congrats" /\ stateFile'.task = proc[p].maxTasks + 1)
       /\ proc[p].pc = "congrats" => proc'[p].pc \in {"congrats", "idle"}
       /\ hist.done => ~Ticks(p)]_vars

\* the awaits of promptForStart
PromptPcs == {"promptInfo", "promptPanel", "promptError"}

\* the loop of p is suspended in the prompt for its next task
InNextTaskPrompt(p) == proc[p].pc \in PromptPcs /\ proc[p].ret = "loop"

\* the loop of p leaves the "Task n committed" modal of a task that is not the last
AdvancesTask(p) ==
  /\ proc[p].pc = "taskDone"
  /\ proc[p].st.task < proc[p].maxTasks
  /\ proc'[p] # proc[p]

\* a start command is invoked in this step
StartInvoked == \E q \in Procs : proc[q].pc = "idle" /\ proc'[q].pc # "idle"

\* C12: when the loop observes the pause marker while task < maxTasks, the
\* persisted state gets task + 1 and the effective elapsed of that tick and
\* the prompt for the next task is issued; until that prompt is accepted no
\* loop ticks and, also after the prompt was closed, the persisted task stays
\* at the incremented value and the loop is not running.
C12_MidSequencePause ==
  [][\A p \in Procs :
       /\ AdvancesTask(p) =>
             /\ stateFile'.task = proc[p].st.task + 1
             /\ stateFile'.elapsed = proc[p].st.limit - proc[p].lastRem
             /\ proc'[p].pc = "promptInfo"
       /\ (InNextTaskPrompt(p) /\ proc'[p].pc \in PromptPcs) =>
             /\ \A q \in Procs : ~Ticks(q)
             /\ ~StartInvoked => stateFile'.task = stateFile.task
             /\ ~Running(p)]_vars

\* C13 as stated: after the user closed the prompt, promptForStart returns
\* false and the calling flow ends: the prompt is not shown again.
C13_CancelEndsFlow ==
  [][\A p \in Procs :
       proc[p].pc = "promptError" => proc'[p].pc \in {"promptError", "idle"}]_vars

\* C13 amended: promptForStart resolves only when the expected text was
\* submitted, and then the loop is launched; any other message leaves the
\* panel open; closing the panel shows "You must type ..." and creates the
\* panel again, so the prompt never returns false and the caller never ends
\* without a loop.
C13_PromptOnlyResolvesTrue ==
  [][\A p \in Procs :
       /\ proc[p].pc = "promptInfo" => proc'[p].pc \in {"promptInfo", "promptPanel"}
       /\ proc[p].pc = "promptPanel" =>
             proc'[p].pc \in {"promptPanel", "promptError", "sleep"}
       /\ proc[p].pc = "promptError" => proc'[p].pc \in {"promptError", "promptPanel"}
       /\ (proc[p].pc \in PromptPcs /\ proc'[p].pc = "sleep") =>
             (stateFile' = proc'[p].st /\ postCommit')]_vars

\* C13 witness: the user has closed the panel of a prompt and the "You must
\* type" message is up; the invocation has not returned.
C13_Witness ==
  \E p \in Procs : proc[p].pc = "promptError" /\ proc[p].ret = "fresh"

\* the limit the claim names for a branch
C14_Lookup(b) ==
  CASE b = "main" -> 360
    [] b = "tutorial" -> 900
    [] b \in {"addPicture", "addDistance"} -> 1800
    [] OTHER -> 1800

\* C14: whenever start is invoked and there is no persisted state or its
\* branch differs from the current branch, the state that start persists has
\* elapsed = 0, task = 1, startTime = now and limit = lookup(current branch),
\* whatever the previous record held.
C14_BranchSwitchReinitializes ==
  [][\A p \in Procs :
       (/\ proc[p].pc = "idle"
        /\ proc'[p].pc # "idle"
        /\ (stateFile = NullState \/ stateFile.branch # proc'[p].st.branch))
       => stateFile' = [branch |-> proc'[p].st.branch, elapsed |-> 0,
                        limit |-> C14_Lookup(proc'[p].st.branch),
                        startTime |-> now, task |-> 1]]_vars

\* C14 witness: a start on main has just re-initialised the record that an
\* earlier loop on another branch had left with progress in it.
C14_Witness ==
  /\ proc[1].pc \in {"promptInfo", "startTaskDone"}
  /\ stateFile = [branch |-> "main", elapsed |-> 0, limit |-> 360,
                  startTime |-> now, task |-> 1]
  /\ now > 0
  /\ postCommit

\* the pause command runs on an existing record in this step
PauseReports == notice'[1] = "paused"

\* C15: a pause command cancels the running loop: once it has returned, no
\* tick of a loop that was launched before it updates the status bar, the
\* persisted state, the warning or the expiry; and the elapsed it persists is
\* the effective elapsed at the moment of the pause.
C15_PauseCancelsLoop ==
  [][/\ hist.paused # NotPaused => \A p \in Procs : ~Ticks(p)
     /\ PauseReports => stateFile'.elapsed = TotalElapsed(stateFile, now)]_vars

\* the remaining time a pause or show-status command reports in this step
Reported ==
  IF notice'[1] = "paused" THEN notice'[2] ELSE notice'[4]

\* C16: after a pause command and with no start in between, every later
\* pause or show-status command reports the remaining time that pause
\* reported, however much time has passed.
C16_PauseFreezesRemaining ==
  [][(hist.paused # NotPaused /\ notice'[1] \in {"paused", "status"})
       => Reported = FormatTime(hist.paused)]_vars

\* C17: a show-status command leaves the persisted record, the pause marker,
\* the pre-commit and post-commit hooks, the status bar and every invocation
\* and loop unchanged.
C17_ShowStatusMutatesNothing ==
  [][notice'[1] = "status" =>
       UNCHANGED <<stateFile, pauseMarker, lockout, postCommit, statusBar, proc>>]_vars

\* C17 witness: show-status has reported on a record while a loop is running
\* and time has passed since the record was written.
C17_Witness ==
  /\ notice[1] = "status"
  /\ \E p \in Procs : Running(p)
  /\ Remaining(stateFile, now) < stateFile.limit - stateFile.elapsed

\* a loop is ticking: it waits for its timer or shows the warning of a tick
Ticking(p) == proc[p].pc \in {"sleep", "warn"}

\* C18: the message of show-status says Running if and only if a timer loop
\* is ticking.
C18_StatusTellsRunning ==
  notice[1] = "status" => (notice[3] = "Running" <=> \E p \in Procs : Ticking(p))

\* C19: with no persisted state file, a pause or show-status command only
\* shows "Timer not started.": no state file is created, the status bar is
\* not changed and no loop is started or stopped.
C19_NotStartedIsNoOp ==
  [][(stateFile = NullState /\ notice'[1] \in {"notStarted", "paused", "status"})
       => /\ notice' = <<"notStarted">>
          /\ UNCHANGED <<stateFile, statusBar, proc, pauseMarker, lockout, postCommit>>]_vars

\* C19 witness: a pause or show-status command has answered "Timer not
\* started." and there is still no state file and no status bar item.
C19_Witness ==
  /\ notice = <<"notStarted">>
  /\ stateFile = NullState
  /\ ~statusBar.shown
  /\ \A p \in Procs : proc[p].pc = "idle"

\* the status bar text of an expired timer
ZeroShown == [shown |-> TRUE, text |-> <<<<0, 0>>, "">>]

\* C20: if the git extension is missing when the timer expires, an error
\* message is shown, no stage, commit or push is performed, the status bar
\* that expiry set to 00:00 is left as it is, no lockout is installed and the
\* loop returns.
C20_MissingGitAborts ==
  [][\A p \in Procs :
       /\ (proc[p].pc = "sleep" /\ proc'[p].pc = "timesUp") => statusBar' = ZeroShown
       /\ DismissTimesUp(p, FALSE) =>
             /\ notice' = <<"autoCommitFailed", "Git extension not found">>
             /\ proc[p].attempts = 0
             /\ proc'[p].pc = "idle"
             /\ UNCHANGED <<statusBar, stateFile, lockout, hist>>]_vars

\* C20 witness: the loop has returned from an expiry without git extension:
\* the error message is up, the status bar shows 00:00, nothing was pushed.
C20_Witness ==
  /\ notice = <<"autoCommitFailed", "Git extension not found">>
  /\ statusBar = ZeroShown
  /\ ~hist.pushed
  /\ ~lockout
  /\ proc[1].pc = "idle"

\* C21: once a loop has expired, whether its auto-commit succeeds or fails,
\* that loop never ticks again, and until a start prompt is accepted (or a
\* start on another branch re-initialises the record) the remaining time
\* computed from the persisted state stays 0.
C21_ExpiredStaysExpired ==
  [][/\ \A p \in Procs :
          (proc[p].pc \in FinishingPcs => proc'[p].pc \in FinishingPcs \cup {"idle"})
     /\ hist'.expired # "" => Remaining(stateFile', now') = 0]_vars

\* the state file holds a record with all five fields
IsComplete(file) ==
  /\ file.exists
  /\ DOMAIN JsonParse(file.text) = {Fields[i] : i \in DOMAIN Fields}

\* C22: no step of FileSpec, whose only step that writes the state file is
\* saveState(loadState()), changes any of the five fields of a complete
\* record stored in the state file.
C22_ResaveIsIdentity ==
  [][IsComplete(stateFile) =>
       /\ IsComplete(stateFile')
       /\ \A i \in DOMAIN Fields :
            JsonParse(stateFile'.text)[Fields[i]] = JsonParse(stateFile.text)[Fields[i]]]_vars

\* a complete record has just been loaded and saved back, at an instant other
\* than its startTime
C22_Witness ==
  /\ notice = <<"saved">>
  /\ IsComplete(stateFile)
  /\ JsonParse(stateFile.text)["startTime"] # now
  /\ JsonParse(stateFile.text)["task"] # 1

\* C23: for a loaded record with 0 <= elapsed <= limit and instants
\* startTime <= now1 <= now2, the effective elapsed min(limit, elapsed + (now -
\* startTime)) does not decrease from now1 to now2 and never exceeds limit, so
\* the remaining time does not increase and is never negative.
C23_EffectiveElapsedMonotone ==
  LET st == proc[1].st
  IN (st # NullState /\ 0 <= st.elapsed /\ st.elapsed <= st.limit) =>
       \A now1, now2 \in FileInstants :
         (st.startTime <= now1 /\ now1 <= now2) =>
           /\ TotalElapsed(st, now1) <= TotalElapsed(st, now2)
           /\ TotalElapsed(st, now2) <= st.limit
           /\ Remaining(st, now2) <= Remaining(st, now1)
           /\ Remaining(st, now2) >= 0

\* a loaded record whose elapsed time, unclamped, exceeds its limit at the
\* current instant
C23_Witness ==
  LET st == proc[1].st
  IN /\ st # NullState
     /\ 0 < st.elapsed /\ st.elapsed <= st.limit
     /\ st.startTime < now
     /\ st.elapsed + (now - st.startTime) > st.limit
     /\ Remaining(st, now) = 0

\* the default loadState gives the numeric field k of a record of branch b
FieldDefault(k, b, nowSec) ==
  CASE k = "elapsed" -> 0
    [] k = "limit" -> IF b \in DOMAIN BRANCH_LIMITS THEN BRANCH_LIMITS[b] ELSE 1800
    [] k = "startTime" -> nowSec
    [] k = "task" -> 1

\* C24: loadState returns null when the state file does not exist; otherwise
\* every field present in the file is returned as stored, and every missing
\* one has its default: elapsed 0, limit BRANCH_LIMITS[branch] or 1800 when
\* the branch is not in the table, startTime now, task 1.
C24_LoadFillsDefaults ==
  notice = <<"loaded">> =>
    LET st == proc[1].st
    IN IF ~stateFile.exists THEN st = NullState
       ELSE LET raw == JsonParse(stateFile.text)
            IN /\ st # NullState
               /\ "branch" \in DOMAIN raw => st.branch = raw["branch"]
               /\ \A k \in {"elapsed", "limit", "startTime", "task"} :
                    st[k] = IF k \in DOMAIN raw THEN raw[k]
                            ELSE FieldDefault(k, st.branch, now)

\* a file with a startTime of 0 and neither limit nor task has been loaded at
\* a later instant, for a branch that is not in the table
C24_Witness ==
  /\ notice = <<"loaded">>
  /\ stateFile.exists
  /\ DOMAIN JsonParse(stateFile.text) = {"branch", "startTime"}
  /\ JsonParse(stateFile.text)["startTime"] = 0
  /\ now > 0
  /\ proc[1].st.branch = "feature"
  /\ proc[1].st.limit = 1800

\* loadState has found no state file
C24_AbsentReached == notice = <<"loaded">> /\ ~stateFile.exists /\ proc[1].st = NullState

\* C25: a tick that finds the pause marker deletes it and shows the paused
\* loop its "Task n committed" modal, without expiry or commit attempt even
\* when no time is left; a tick without marker and with remaining <= 0 goes to
\* the "Time's up" modal; any other tick keeps the loop running and persists
\* the effective elapsed time.
C25_TickTakesOneBranch ==
  [][\A p \in Procs :
       Ticks(p) =>
         LET remaining == Remaining(proc[p].st, now)
         IN IF pauseMarker
              THEN /\ ~pauseMarker'
                   /\ proc'[p].pc = "taskDone"
                   /\ statusBar'.text[2] = "(paused)"
                   /\ proc'[p].attempts = proc[p].attempts
                   /\ lockout' = lockout
                   /\ hist'.expired = hist.expired
              ELSE IF remaining <= 0
                THEN /\ proc'[p].pc = "timesUp"
                     /\ statusBar'.text = StatusText(0, "")
                ELSE /\ proc'[p].pc \in {"sleep", "warn"}
                     /\ stateFile'.elapsed = TotalElapsed(proc[p].st, now)
                     /\ stateFile'.elapsed < stateFile'.limit
                     /\ hist'.expired = hist.expired]_vars

\* a loop paused by a tick that found the marker when no time was left
C25_Witness ==
  \E p \in Procs :
    /\ proc[p].pc = "taskDone"
    /\ proc[p].lastRem = 0
    /\ ~pauseMarker
    /\ statusBar.text = StatusText(0, "(paused)")
    /\ hist.expired = ""

\* the success or the failure notice of onTimerFinished
FinishNotices == {"allCommitted", "autoCommitFailed"}

\* the positions onTimerFinished can go to from each of its awaits
FinishOrder ==
  [timesUp   |-> {"timesUp", "gitAdd", "idle"},
   gitAdd    |-> {"gitAdd", "gitCommit", "idle"},
   gitCommit |-> {"gitCommit", "gitPush", "idle"},
   gitPush   |-> {"gitPush", "idle"}]

\* C26 as stated: whenever the success or the failure notice of
\* onTimerFinished is shown, the lockout hook has been installed.
C26_LockoutThenEitherNotice ==
  [][notice'[1] \in FinishNotices => lockout']_vars

\* C26 amended: the tick that expires leaves the loop at the "Time's up"
\* notice with the status bar at 00:00, no pause marker and the lockout hook
\* untouched; from there the loop only goes through stage, commit and push in
\* that order, never back to a tick; the lockout hook changes only in the
\* step in which push succeeds, which also shows the success notice; the
\* failure notice is shown with the lockout hook left as it was.
C26_ExpiryOrder ==
  [][/\ \A p \in Procs :
          /\ (Ticks(p) /\ proc'[p].pc = "timesUp") =>
                (statusBar' = ZeroShown /\ ~pauseMarker' /\ lockout' = lockout)
          /\ proc[p].pc \in FinishingPcs => proc'[p].pc \in FinishOrder[proc[p].pc]
     /\ lockout' # lockout =>
          (notice' = <<"allCommitted">> /\ \E p \in Procs : proc[p].pc = "gitPush")
     /\ notice' = <<"allCommitted">> => lockout'
     /\ notice'[1] = "autoCommitFailed" => lockout' = lockout]_vars

\* push was rejected after stage and commit succeeded: the failure notice is
\* shown, the status bar reads 00:00 and no lockout hook was installed
C26_Witness ==
  /\ notice = <<"autoCommitFailed", "rejected">>
  /\ statusBar = ZeroShown
  /\ ~pauseMarker
  /\ ~lockout
  /\ hist.expired # ""
  /\ proc[1].pc = "idle"

\* the "Task n committed" modals, shown by a tick and by the start command
\* after they have deleted the pause marker
MarkerModals == {"taskDone", "startTaskDone"}

\* C27: every consumption of the pause marker, by a tick or by the start
\* command, deletes the marker, and the handler that consumed it has
\* persisted a task index one higher than the stored one by the time it
\* resumes ticking or returns.
C27_ConsumptionPersistsAdvance ==
  [][\A p \in Procs :
       /\ (proc[p].pc \notin MarkerModals /\ proc'[p].pc \in MarkerModals) =>
            (pauseMarker /\ ~pauseMarker')
       /\ (proc[p].pc = "taskDone" /\ proc'[p] # proc[p]) =>
            stateFile'.task = stateFile.task + 1
       /\ (proc[p].pc = "startTaskDone" /\ proc'[p] # proc[p]) =>
            proc'[p].st.task = stateFile.task + 1
       /\ (proc[p].pc = "promptPanel" /\ proc[p].ret = "next" /\ proc'[p].pc = "sleep") =>
            stateFile'.task = stateFile.task + 1
       /\ (proc[p].pc = "startCongrats" /\ proc'[p].pc = "idle") =>
            stateFile.task = proc[p].st.task]_vars

\* the notices with which the pause and the show-status command complete
CommandNotices == {"paused", "status", "notStarted"}

\* C28: while the state file is unparsable, no command completes: a start
\* shows no prompt and starts no loop, pause and show-status report nothing,
\* and the state file is written only by a handler that was already running.
C28_MalformedChangesNothing ==
  [][stateFile = MalformedState =>
       /\ \A p \in Procs : proc[p].pc \in Terminal => proc'[p] = proc[p]
       /\ notice'[1] \notin CommandNotices
       /\ stateFile' # stateFile =>
            \E p \in Procs : proc[p].pc \notin Terminal /\ proc'[p] # proc[p]
       /\ notice'[1] = "error" =>
            UNCHANGED <<stateFile, pauseMarker, lockout, postCommit, statusBar, proc>>]_vars

\* a command has failed on the unparsable file after a loop had run: the file
\* is still unparsable and nothing is in progress
C28_Witness ==
  /\ notice = <<"error", "SyntaxError">>
  /\ stateFile = MalformedState
  /\ statusBar.shown
  /\ \A p \in Procs : proc[p].pc = "idle"

\* the loop of p is between its first tick and its return
LoopAlive(p) == InLoop(p) \/ InNextTaskPrompt(p)

\* the next-task prompt of the loop of p is accepted in this step
ResumesLoop(p) == proc[p].pc = "promptPanel" /\ proc[p].ret = "loop" /\ proc'[p].pc = "sleep"

\* C29: when the next-task prompt of a loop is accepted, the loop's record
\* changes only in startTime, which becomes now, so elapsed is the value
\* stored at the pause tick and the remaining time right after resuming is
\* the remaining time of the pause tick; and the remaining time a loop
\* computes never increases while that loop lives.
C29_AdvanceKeepsBudget ==
  [][\A p \in Procs :
       /\ ResumesLoop(p) =>
            /\ proc'[p].st = [proc[p].st EXCEPT !.startTime = now]
            /\ stateFile' = proc'[p].st
            /\ Remaining(proc'[p].st, now') = proc[p].lastRem
       /\ (LoopAlive(p) /\ LoopAlive(p)') => proc'[p].lastRem <= proc[p].lastRem]_vars

\* a loop waits in its next-task prompt with part of the budget used at the
\* pause tick and waiting time gone by since
C29_Witness ==
  \E p \in Procs :
    /\ proc[p].pc = "promptPanel"
    /\ proc[p].ret = "loop"
    /\ proc[p].st.elapsed > 0
    /\ proc[p].lastRem = proc[p].st.limit - proc[p].st.elapsed
    /\ now > proc[p].st.startTime + proc[p].st.elapsed

\* the prompt of a start command that found no pause marker is accepted in
\* this step
StartsFresh(p) == proc[p].pc = "promptPanel" /\ proc[p].ret = "fresh" /\ proc'[p].pc = "sleep"

====
